---- MODULE Spec2Model ----
(***************************************************************************)
(* Model of the Composer repository's MIDI utility module                  *)
(* (src/utils/midi_utils.py) and of the MAESTRO download script            *)
(* (src/scripts/download_maestro.py).                                      *)
(*                                                                         *)
(* Conventions.                                                            *)
(*  - An Optional value is a sequence: <<>> is None, <<x>> is the value x. *)
(*  - A call's outcome is [kind |-> "return", value |-> v] or              *)
(*    [kind |-> "raise", exc |-> e].                                       *)
(*  - A Python dict is a TLA+ record whose DOMAIN is its key set.          *)
(*  - A duration in seconds is the exact fraction [num, den] (den > 0);    *)
(*    floating-point rounding is not modelled.                             *)
(*  - A file on disk is [exists, parses, content]; the third-party parsers *)
(*    (miditoolkit.MidiFile, pretty_midi.PrettyMIDI) either fail or hand   *)
(*    back the content as an object of their type.                         *)
(***************************************************************************)
EXTENDS Integers, Sequences, FiniteSets, TLC

VARIABLES
    op,            \* midi_utils: the call in progress ("idle" when none)
    args,          \* midi_utils: the call's arguments
    ret,           \* midi_utils: the call's outcome
    pc,            \* download_maestro: position in the function
    dl,            \* download_maestro: the arguments and locals of the call
    fs,            \* download_maestro: the output directory on disk
    fs0,           \* history: fs when download_maestro was called
    events         \* history: the prompts, downloads and extractions of the call

vars == <<op, args, ret, pc, dl, fs, fs0, events>>
midiVars == <<op, args, ret>>
dlVars == <<pc, dl, fs, fs0, events>>

---------------------------------------------------------------------------
(* Bounds and input sets *)

MaxInst == 2
MaxNotes == 2

Pitches == {60, 72}
Programs == {0, 7, 8}
Names == {"a", "b"}
TempoSeqs == {<<>>, <<120>>, <<60>>, <<120, 60>>}
Ticks == {0, 2}
TicksPerBeat == {0, 1, 2}
MinNotes == {0, 1, 3}
DurationBounds == {<<>>, <<0>>, <<1>>, <<2>>}
Backends == {"miditoolkit", "pretty_midi", "mido"}
ProgramLists == {<<>>, << <<>> >>, << <<0>> >>, << <<8, 0>> >>}

SeqsUpTo(S, n) == UNION {[1..k -> S] : k \in 0..n}

---------------------------------------------------------------------------
(* Python helpers *)

None == <<>>
Return(v) == [kind |-> "return", value |-> v]
Raise(e) == [kind |-> "raise", exc |-> e]

\* bool(x) of an Optional[float]: None and 0 are falsy
Truthy(o) == o # None /\ o[1] # 0

HasKey(d, k) == k \in DOMAIN d
Get(d, k, default) == IF k \in DOMAIN d THEN d[k] ELSE default

RECURSIVE SumLens(_)
SumLens(insts) ==
    IF insts = <<>> THEN 0
    ELSE Len(Head(insts).notes) + SumLens(Tail(insts))

RECURSIVE SumSeq(_)
SumSeq(s) == IF s = <<>> THEN 0 ELSE Head(s) + SumSeq(Tail(s))

RECURSIVE MinSeq(_)
MinSeq(s) ==
    IF Len(s) = 1 THEN s[1]
    ELSE LET m == MinSeq(Tail(s)) IN IF s[1] < m THEN s[1] ELSE m

RECURSIVE MaxSeq(_)
MaxSeq(s) ==
    IF Len(s) = 1 THEN s[1]
    ELSE LET m == MaxSeq(Tail(s)) IN IF s[1] > m THEN s[1] ELSE m

---------------------------------------------------------------------------
(* src/utils/midi_utils.py *)

\* Exception classes the module's calls can end in; all derive from Exception.
ExceptionClasses == {"FileNotFoundError", "ValueError", "ZeroDivisionError", "ParseError"}

\* The object a backend's parser builds from a file's content.
MidiFile(content) ==
    [type |-> "miditoolkit",
     ticks_per_beat |-> content.ticks_per_beat,
     max_tick |-> content.max_tick,
     tempo_changes |-> content.tempo_changes,
     time_signature_changes |-> content.time_signature_changes,
     key_signature_changes |-> content.key_signature_changes,
     instruments |-> content.instruments]

PrettyMIDI(content) ==
    [type |-> "pretty_midi",
     end_time |-> content.end_time,
     instruments |-> content.instruments]

\* load_midi_file with the backend dispatched before the existence check
load_midi_file_swapped(file, backend) ==
    IF backend = "miditoolkit" THEN
        IF ~file.exists THEN Raise("FileNotFoundError")
        ELSE IF file.parses THEN Return(MidiFile(file.content)) ELSE Raise("ParseError")
    ELSE IF backend = "pretty_midi" THEN
        IF ~file.exists THEN Raise("FileNotFoundError")
        ELSE IF file.parses THEN Return(PrettyMIDI(file.content)) ELSE Raise("ParseError")
    ELSE Raise("ValueError")

\* load_midi_file: existence check, then dispatch on the backend
load_midi_file(file, backend) ==
    IF ~file.exists THEN Raise("FileNotFoundError")
    ELSE IF backend = "miditoolkit" THEN
        IF file.parses THEN Return(MidiFile(file.content)) ELSE Raise("ParseError")
    ELSE IF backend = "pretty_midi" THEN
        IF file.parses THEN Return(PrettyMIDI(file.content)) ELSE Raise("ParseError")
    ELSE Raise("ValueError")

\* the list built by the loop over midi.instruments
InstInfos(insts) ==
    [i \in 1..Len(insts) |->
        [program |-> insts[i].program,
         is_drum |-> insts[i].is_drum,
         name |-> insts[i].name,
         num_notes |-> Len(insts[i].notes)]]

\* all_notes taken from the first instrument alone
AllNotesFirstOnly(insts) ==
    IF insts = <<>> THEN <<>>
    ELSE [i \in 1..Len(Head(insts).notes) |-> Head(insts).notes[i].pitch]

\* all_notes: the pitches of every instrument's notes, instrument by instrument
RECURSIVE AllNotes(_)
AllNotes(insts) ==
    IF insts = <<>> THEN <<>>
    ELSE [i \in 1..Len(Head(insts).notes) |-> Head(insts).notes[i].pitch]
         \o AllNotes(Tail(insts))

\* the "pitch_range" entry, present only when there is a note
PitchRangePart(insts) ==
    LET all_notes == AllNotes(insts) IN
    IF insts # <<>> /\ all_notes # <<>>
    THEN [pitch_range |->
            [min |-> MinSeq(all_notes),
             max |-> MaxSeq(all_notes),
             span |-> MaxSeq(all_notes) - MinSeq(all_notes)]]
    ELSE <<>>

\* (max_tick / ticks_per_beat) * (60 / mean(tempos)) as an exact fraction
DurationSeconds(midi) ==
    [num |-> midi.max_tick * 60 * Len(midi.tempo_changes),
     den |-> midi.ticks_per_beat * SumSeq(midi.tempo_changes)]

_get_info_miditoolkit(midi) ==
    LET info == [ticks_per_beat |-> midi.ticks_per_beat,
                 tempo_changes |-> Len(midi.tempo_changes),
                 time_signature_changes |-> Len(midi.time_signature_changes),
                 key_signature_changes |-> Len(midi.key_signature_changes),
                 instruments |-> InstInfos(midi.instruments),
                 total_notes |-> SumLens(midi.instruments)]
                @@ PitchRangePart(midi.instruments)
    IN
    IF midi.max_tick # 0 /\ midi.tempo_changes # <<>> THEN
        IF midi.ticks_per_beat = 0 THEN Raise("ZeroDivisionError")
        ELSE Return(info @@ [duration_seconds |-> DurationSeconds(midi),
                             duration_ticks |-> midi.max_tick])
    ELSE Return(info)

_get_info_pretty_midi(midi) ==
    Return([duration_seconds |-> [num |-> midi.end_time, den |-> 1],
            instruments |-> InstInfos(midi.instruments),
            total_notes |-> SumLens(midi.instruments)]
           @@ PitchRangePart(midi.instruments))

\* get_midi_info on an already loaded object
get_midi_info_obj(midi) ==
    IF midi.type = "miditoolkit" THEN _get_info_miditoolkit(midi)
    ELSE IF midi.type = "pretty_midi" THEN _get_info_pretty_midi(midi)
    ELSE Raise("ValueError")

\* get_midi_info on a path: the file is loaded with the miditoolkit backend
get_midi_info(file) ==
    LET loaded == load_midi_file(file, "miditoolkit") IN
    IF loaded.kind = "raise" THEN loaded ELSE get_midi_info_obj(loaded.value)

\* a handler that catches OSError only
CaughtOSErrorOnly(exc) == exc = "FileNotFoundError"

\* "except Exception": the classes the handler of validate_midi_file catches
Caught(exc) == exc \in ExceptionClasses

\* a reason string: its fixed beginning and the values formatted into it
Reason(prefix, detail) == [prefix |-> prefix, detail |-> detail]

\* duration > bound and duration < bound on the exact fraction
DurationGt(d, bound) == d.num > bound * d.den
DurationLt(d, bound) == d.num < bound * d.den

\* the try block without the note-count test
ValidateInfoNoMinNotes(info, min_notes, max_duration, min_duration, require_tempo) ==
    IF HasKey(info, "duration_seconds")
            /\ Truthy(max_duration)
            /\ DurationGt(info.duration_seconds, max_duration[1])
    THEN <<FALSE, Reason("Duration too long: ", <<info.duration_seconds, max_duration[1]>>)>>
    ELSE IF HasKey(info, "duration_seconds")
            /\ Truthy(min_duration)
            /\ DurationLt(info.duration_seconds, min_duration[1])
    THEN <<FALSE, Reason("Duration too short: ", <<info.duration_seconds, min_duration[1]>>)>>
    ELSE IF require_tempo /\ Get(info, "tempo_changes", 0) = 0
    THEN <<FALSE, Reason("No tempo changes found", <<>>)>>
    ELSE <<TRUE, Reason("Valid", <<>>)>>

\* the try block without the tempo-change test
ValidateInfoIgnoreRequireTempo(info, min_notes, max_duration, min_duration, require_tempo) ==
    IF info.total_notes < min_notes
    THEN <<FALSE, Reason("Too few notes: ", <<info.total_notes, min_notes>>)>>
    ELSE IF HasKey(info, "duration_seconds")
            /\ Truthy(max_duration)
            /\ DurationGt(info.duration_seconds, max_duration[1])
    THEN <<FALSE, Reason("Duration too long: ", <<info.duration_seconds, max_duration[1]>>)>>
    ELSE IF HasKey(info, "duration_seconds")
            /\ Truthy(min_duration)
            /\ DurationLt(info.duration_seconds, min_duration[1])
    THEN <<FALSE, Reason("Duration too short: ", <<info.duration_seconds, min_duration[1]>>)>>
    ELSE <<TRUE, Reason("Valid", <<>>)>>

\* the body of the try block, given the record get_midi_info returned
ValidateInfo(info, min_notes, max_duration, min_duration, require_tempo) ==
    IF info.total_notes < min_notes
    THEN <<FALSE, Reason("Too few notes: ", <<info.total_notes, min_notes>>)>>
    ELSE IF HasKey(info, "duration_seconds")
            /\ Truthy(max_duration)
            /\ DurationGt(info.duration_seconds, max_duration[1])
    THEN <<FALSE, Reason("Duration too long: ", <<info.duration_seconds, max_duration[1]>>)>>
    ELSE IF HasKey(info, "duration_seconds")
            /\ Truthy(min_duration)
            /\ DurationLt(info.duration_seconds, min_duration[1])
    THEN <<FALSE, Reason("Duration too short: ", <<info.duration_seconds, min_duration[1]>>)>>
    ELSE IF require_tempo /\ Get(info, "tempo_changes", 0) = 0
    THEN <<FALSE, Reason("No tempo changes found", <<>>)>>
    ELSE <<TRUE, Reason("Valid", <<>>)>>

validate_midi_file(file, min_notes, max_duration, min_duration, require_tempo) ==
    LET r == get_midi_info(file) IN
    IF r.kind = "raise" THEN
        IF Caught(r.exc)
        THEN Return(<<FALSE, Reason("Error loading MIDI: ", r.exc)>>)
        ELSE r
    ELSE Return(ValidateInfo(r.value, min_notes, max_duration, min_duration, require_tempo))

\* "inst.program in program_numbers"
InList(x, list) == \E i \in 1..Len(list) : list[i] = x

\* the loop of filter_midi_by_instrument from instrument i on; acc is filtered_instruments
RECURSIVE FilterLoop(_, _, _, _, _)
FilterLoop(insts, i, program_numbers, exclude_drums, acc) ==
    IF i > Len(insts) THEN acc
    ELSE IF exclude_drums /\ insts[i].is_drum
    THEN FilterLoop(insts, i + 1, program_numbers, exclude_drums, acc)
    ELSE IF program_numbers = None \/ InList(insts[i].program, program_numbers[1])
    THEN FilterLoop(insts, i + 1, program_numbers, exclude_drums, Append(acc, insts[i]))
    ELSE FilterLoop(insts, i + 1, program_numbers, exclude_drums, acc)

\* the filter with the drum test left out
filter_obj_keep_drums(midi, program_numbers, exclude_drums) ==
    [midi EXCEPT !.instruments = FilterLoop(midi.instruments, 1, program_numbers, FALSE, <<>>)]

\* filter_midi_by_instrument on a loaded object: midi.instruments is replaced
filter_obj(midi, program_numbers, exclude_drums) ==
    [midi EXCEPT !.instruments =
        FilterLoop(midi.instruments, 1, program_numbers, exclude_drums, <<>>)]

\* filter_midi_by_instrument on a path
filter_midi_by_instrument(file, program_numbers, exclude_drums) ==
    LET loaded == load_midi_file(file, "miditoolkit") IN
    IF loaded.kind = "raise" THEN loaded
    ELSE Return(filter_obj(loaded.value, program_numbers, exclude_drums))

\* list(range(8))
piano_programs == [i \in 1..8 |-> i - 1]

get_piano_midi(file) == filter_midi_by_instrument(file, <<piano_programs>>, TRUE)

---------------------------------------------------------------------------
(* Inputs of the midi_utils calls *)

NoteSeqs(pitches) == SeqsUpTo({[pitch |-> q] : q \in pitches}, MaxNotes)

Content(tpb, max_tick, tempos, insts) ==
    [ticks_per_beat |-> tpb,
     max_tick |-> max_tick,
     tempo_changes |-> tempos,
     time_signature_changes |-> <<>>,
     key_signature_changes |-> <<>>,
     end_time |-> max_tick,
     instruments |-> insts]

MissingFile == [exists |-> FALSE, parses |-> FALSE, content |-> Content(0, 0, <<>>, <<>>)]
CorruptFile == [exists |-> TRUE, parses |-> FALSE, content |-> Content(0, 0, <<>>, <<>>)]
GoodFile(content) == [exists |-> TRUE, parses |-> TRUE, content |-> content]

\* instruments that differ only in their number of notes
CountInsts ==
    SeqsUpTo({[program |-> 0, is_drum |-> FALSE, name |-> "a", notes |-> n] :
                n \in NoteSeqs({60})}, MaxInst)

\* instruments that differ in their notes' pitches
PitchInsts ==
    SeqsUpTo({[program |-> 0, is_drum |-> FALSE, name |-> "a", notes |-> n] :
                n \in NoteSeqs(Pitches)}, MaxInst)

\* instruments that differ in program, drum flag and name
ProgramInsts ==
    SeqsUpTo([program : Programs, is_drum : BOOLEAN, name : Names, notes : {<<>>}], MaxInst)

ValidateFiles ==
    {MissingFile, CorruptFile} \cup
    {GoodFile(Content(tpb, mt, tc, insts)) :
        tpb \in TicksPerBeat, mt \in Ticks, tc \in TempoSeqs, insts \in CountInsts}

InfoFiles ==
    {MissingFile, CorruptFile} \cup
    {GoodFile(Content(tpb, mt, tc, insts)) :
        tpb \in {0, 1}, mt \in Ticks, tc \in {<<>>, <<120>>}, insts \in PitchInsts}

FilterFiles ==
    {MissingFile, CorruptFile} \cup
    {GoodFile(Content(1, 2, <<120>>, insts)) : insts \in ProgramInsts}

LoadFiles == {MissingFile, CorruptFile, GoodFile(Content(1, 2, <<120>>, <<>>))}

---------------------------------------------------------------------------
(* midi_utils calls as actions: a call is made with op = "idle" and leaves *)
(* its arguments in args and its outcome in ret; Done forgets them.        *)

CallLoad ==
    /\ op = "idle"
    /\ \E file \in LoadFiles, backend \in Backends :
        /\ op' = "load_midi_file"
        /\ args' = [file |-> file, backend |-> backend]
        /\ ret' = load_midi_file(file, backend)
    /\ UNCHANGED dlVars

\* get_midi_info(path), or get_midi_info(load_midi_file(path, backend))
CallGetMidiInfo ==
    /\ op = "idle"
    /\ \E file \in InfoFiles, how \in {"path", "miditoolkit", "pretty_midi"} :
        /\ op' = "get_midi_info"
        /\ args' = [file |-> file, how |-> how]
        /\ ret' = IF how = "path" THEN get_midi_info(file)
                  ELSE LET loaded == load_midi_file(file, how) IN
                       IF loaded.kind = "raise" THEN loaded
                       ELSE get_midi_info_obj(loaded.value)
    /\ UNCHANGED dlVars

CallValidate ==
    /\ op = "idle"
    /\ \E file \in ValidateFiles, min_notes \in MinNotes,
          max_duration \in DurationBounds, min_duration \in DurationBounds,
          require_tempo \in BOOLEAN :
        /\ op' = "validate_midi_file"
        /\ args' = [file |-> file, min_notes |-> min_notes,
                    max_duration |-> max_duration, min_duration |-> min_duration,
                    require_tempo |-> require_tempo]
        /\ ret' = validate_midi_file(file, min_notes, max_duration, min_duration,
                                     require_tempo)
    /\ UNCHANGED dlVars

CallFilter ==
    /\ op = "idle"
    /\ \E file \in FilterFiles, program_numbers \in ProgramLists,
          exclude_drums \in BOOLEAN :
        /\ op' = "filter_midi_by_instrument"
        /\ args' = [file |-> file, program_numbers |-> program_numbers,
                    exclude_drums |-> exclude_drums]
        /\ ret' = filter_midi_by_instrument(file, program_numbers, exclude_drums)
    /\ UNCHANGED dlVars

CallPiano ==
    /\ op = "idle"
    /\ \E file \in FilterFiles :
        /\ op' = "get_piano_midi"
        /\ args' = [file |-> file]
        /\ ret' = get_piano_midi(file)
    /\ UNCHANGED dlVars

Done ==
    /\ op # "idle"
    /\ op' = "idle"
    /\ args' = <<>>
    /\ ret' = <<>>
    /\ UNCHANGED dlVars

---------------------------------------------------------------------------
(* src/scripts/download_maestro.py *)

MAESTRO_VERSIONS ==
    [v \in {"v3.0.0"} |->
        [midi_only |-> "maestro-v3.0.0-midi.zip",
         full |-> "maestro-v3.0.0.zip",
         metadata |-> "maestro-v3.0.0.json"]]

Versions == {"v3.0.0", "v2.0.0", ""}
Answers == {"yes", "YES", "Yes", "no", "y", ""}
ZipNames == {"maestro-midi.zip", "maestro-full.zip"}

\* str.lower() on the answers
lower(s) == CASE s = "YES" -> "yes" [] s = "Yes" -> "yes" [] OTHER -> s

\* the output directory: whether it exists, and which files it holds
FsStates ==
    {f \in [dir : BOOLEAN, zips : [ZipNames -> BOOLEAN], meta : BOOLEAN, extracted : BOOLEAN] :
        ~f.dir => (\A z \in ZipNames : ~f.zips[z]) /\ ~f.meta /\ ~f.extracted}

Event(name, ok, answer, url) ==
    [name |-> name, ok |-> ok, answer |-> answer, url |-> url,
     zip |-> IF dl.zip_filename \in ZipNames THEN fs.zips[dl.zip_filename] ELSE FALSE,
     meta |-> fs.meta]

\* download_maestro(output_dir, version, midi_only) is called
CallDownload ==
    /\ pc = "idle"
    /\ \E version \in Versions, midi_only \in BOOLEAN :
        dl' = [version |-> version, midi_only |-> midi_only, url |-> "", zip_filename |-> ""]
    /\ pc' = "mkdir"
    /\ fs0' = fs
    /\ events' = <<>>
    /\ UNCHANGED <<fs, midiVars>>

\* output_path.mkdir(parents=True, exist_ok=True)
Mkdir ==
    /\ pc = "mkdir"
    /\ fs' = [fs EXCEPT !.dir = TRUE]
    /\ pc' = "version"
    /\ UNCHANGED <<dl, fs0, events, midiVars>>

\* a version check that falls back to the only known version
CheckVersionFallback ==
    /\ pc = "version"
    /\ pc' = "mode"
    /\ UNCHANGED <<dl, fs, fs0, events, midiVars>>

\* if version not in MAESTRO_VERSIONS: return
CheckVersion ==
    /\ pc = "version"
    /\ pc' = IF dl.version \notin DOMAIN MAESTRO_VERSIONS THEN "returned" ELSE "mode"
    /\ UNCHANGED <<dl, fs, fs0, events, midiVars>>

\* if midi_only: the MIDI zip is selected; else the size warning is shown
SelectMode ==
    /\ pc = "mode"
    /\ IF dl.midi_only
       THEN /\ dl' = [dl EXCEPT !.url = MAESTRO_VERSIONS[dl.version].midi_only,
                                !.zip_filename = "maestro-midi.zip"]
            /\ pc' = "zip_exists"
       ELSE /\ dl' = dl
            /\ pc' = "prompt_size"
    /\ UNCHANGED <<fs, fs0, events, midiVars>>

\* input("This is a very large download. Continue? (yes/no): ")
PromptSize ==
    /\ pc = "prompt_size"
    /\ \E response \in Answers :
        /\ events' = Append(events, Event("prompt_size", TRUE, response, ""))
        /\ IF lower(response) # "yes"
           THEN /\ pc' = "returned"
                /\ dl' = dl
           ELSE /\ pc' = "zip_exists"
                /\ dl' = [dl EXCEPT !.url = MAESTRO_VERSIONS[dl.version].full,
                                    !.zip_filename = "maestro-full.zip"]
    /\ UNCHANGED <<fs, fs0, midiVars>>

\* if zip_path.exists()
ZipExists ==
    /\ pc = "zip_exists"
    /\ pc' = IF fs.zips[dl.zip_filename] THEN "prompt_redownload" ELSE "download_zip"
    /\ UNCHANGED <<dl, fs, fs0, events, midiVars>>

\* input("Re-download? (yes/no): ")
PromptRedownload ==
    /\ pc = "prompt_redownload"
    /\ \E response \in Answers :
        /\ events' = Append(events, Event("prompt_redownload", TRUE, response, ""))
        /\ pc' = IF lower(response) # "yes" THEN "extract" ELSE "download_zip"
    /\ UNCHANGED <<dl, fs, fs0, midiVars>>

\* a download_file(url, zip_path) whose failure is swallowed
DownloadZipSwallow ==
    /\ pc = "download_zip"
    /\ \E ok \in BOOLEAN :
        /\ events' = Append(events, Event("download_zip", ok, "", dl.url))
        /\ fs' = [fs EXCEPT !.zips[dl.zip_filename] = @ \/ ok]
        /\ pc' = "extract"
    /\ UNCHANGED <<dl, fs0, midiVars>>

\* download_file(url, zip_path): urlretrieve writes the file, or raises and
\* leaves nothing or a partial file behind
DownloadZip ==
    /\ pc = "download_zip"
    /\ \E ok \in BOOLEAN, partial \in BOOLEAN :
        /\ events' = Append(events, Event("download_zip", ok, "", dl.url))
        /\ fs' = [fs EXCEPT !.zips[dl.zip_filename] = @ \/ ok \/ partial]
        /\ pc' = IF ok THEN "extract" ELSE "raised"
    /\ UNCHANGED <<dl, fs0, midiVars>>

\* with zipfile.ZipFile(zip_path, 'r') as zip_ref: zip_ref.extractall(output_path)
Extract ==
    /\ pc = "extract"
    /\ \E ok \in BOOLEAN :
        /\ ok => fs.zips[dl.zip_filename]
        /\ events' = Append(events, Event("extract", ok, "", ""))
        /\ fs' = [fs EXCEPT !.extracted = @ \/ ok]
        /\ pc' = IF ok THEN "metadata_exists" ELSE "raised"
    /\ UNCHANGED <<dl, fs0, midiVars>>

\* a metadata step that downloads whether or not the file exists
MetadataAlways ==
    /\ pc = "metadata_exists"
    /\ pc' = "download_metadata"
    /\ UNCHANGED <<dl, fs, fs0, events, midiVars>>

\* if not metadata_path.exists()
MetadataExists ==
    /\ pc = "metadata_exists"
    /\ pc' = IF ~fs.meta THEN "download_metadata" ELSE "returned"
    /\ UNCHANGED <<dl, fs, fs0, events, midiVars>>

\* download_file(metadata_url, metadata_path)
DownloadMetadata ==
    /\ pc = "download_metadata"
    /\ \E ok \in BOOLEAN, partial \in BOOLEAN :
        /\ events' = Append(events, Event("download_metadata", ok, "", MAESTRO_VERSIONS[dl.version].metadata))
        /\ fs' = [fs EXCEPT !.meta = @ \/ ok \/ partial]
        /\ pc' = IF ok THEN "load_metadata" ELSE "raised"
    /\ UNCHANGED <<dl, fs0, midiVars>>

\* with open(metadata_path, 'r') as f: metadata = json.load(f)
LoadMetadata ==
    /\ pc = "load_metadata"
    /\ \E ok \in BOOLEAN :
        /\ events' = Append(events, Event("load_metadata", ok, "", ""))
        /\ pc' = IF ok THEN "returned" ELSE "raised"
    /\ UNCHANGED <<dl, fs, fs0, midiVars>>

\* the call is over (it returned, or an exception left it)
Finish ==
    /\ pc \in {"returned", "raised"}
    /\ pc' = "idle"
    /\ UNCHANGED <<dl, fs, fs0, events, midiVars>>

---------------------------------------------------------------------------
(* Specifications *)

InitMidi ==
    /\ op = "idle"
    /\ args = <<>>
    /\ ret = <<>>

InitDownload ==
    /\ pc = "idle"
    /\ dl = [version |-> "", midi_only |-> TRUE, url |-> "", zip_filename |-> ""]
    /\ events = <<>>

\* the utility module, with no download in progress
Init ==
    /\ InitMidi
    /\ InitDownload
    /\ fs = [dir |-> FALSE, zips |-> [z \in ZipNames |-> FALSE], meta |-> FALSE,
             extracted |-> FALSE]
    /\ fs0 = fs

Next ==
    \/ CallLoad
    \/ CallGetMidiInfo
    \/ CallValidate
    \/ CallFilter
    \/ CallPiano
    \/ Done

Spec == Init /\ [][Next]_vars

\* the download script, started on any state of the output directory
InitDL ==
    /\ InitMidi
    /\ InitDownload
    /\ fs \in FsStates
    /\ fs0 = fs

NextDL ==
    \/ CallDownload
    \/ Mkdir
    \/ CheckVersion
    \/ SelectMode
    \/ PromptSize
    \/ ZipExists
    \/ PromptRedownload
    \/ DownloadZip
    \/ Extract
    \/ MetadataExists
    \/ DownloadMetadata
    \/ LoadMetadata
    \/ Finish

SpecDL == InitDL /\ [][NextDL]_vars

---------------------------------------------------------------------------
(* Properties of validate_midi_file *)

Validated == op = "validate_midi_file"
Loads(file) == file.exists /\ file.parses

\* the number of notes of a file, counted note by note over all instruments
NoteCount(insts) ==
    Cardinality(UNION {{<<i, j>> : j \in 1..Len(insts[i].notes)} : i \in 1..Len(insts)})

\* information extraction divides by ticks_per_beat when it computes a duration
InfoFails(content) ==
    content.ticks_per_beat = 0 /\ content.max_tick # 0 /\ content.tempo_changes # <<>>

IsValid(r) == r.kind = "return" /\ r.value[1] = TRUE /\ r.value[2].prefix = "Valid"
Rejected(r, prefix) ==
    r.kind = "return" /\ r.value[1] = FALSE /\ r.value[2].prefix = prefix

TooFew == Validated /\ Loads(args.file)
            /\ NoteCount(args.file.content.instruments) < args.min_notes

\* C1 as stated: a file that loads and has fewer than min_notes notes is
\* rejected with a "Too few notes" reason, whatever the other settings are.
C1_Original == TooFew => Rejected(ret, "Too few notes: ")

\* C1 amended: a file that loads and has fewer than min_notes notes is never
\* valid; it is rejected with a "Too few notes" reason when get_midi_info
\* returns a record, and with an "Error loading MIDI" reason when
\* get_midi_info raises (ticks_per_beat = 0 while a duration is computed).
C1_TooFewNotesRejected ==
    TooFew =>
        /\ ~IsValid(ret)
        /\ IF InfoFails(args.file.content)
           THEN Rejected(ret, "Error loading MIDI: ")
           ELSE Rejected(ret, "Too few notes: ")

C1_Witness ==
    /\ TooFew
    /\ ~InfoFails(args.file.content)
    /\ args.file.content.max_tick # 0
    /\ args.max_duration = <<1>>
    /\ args.require_tempo
    /\ Rejected(ret, "Too few notes: ")

\* the duration the summary reports for a file that validate_midi_file accepted
HasDuration(content) ==
    content.max_tick # 0 /\ content.tempo_changes # <<>> /\ content.ticks_per_beat # 0

\* C2 as stated: a file found valid has a duration of at most max_duration
\* when max_duration is not None, and of at least min_duration when
\* min_duration is not None.
C2_DurationBounds ==
    (Validated /\ IsValid(ret) /\ HasDuration(args.file.content)) =>
        LET d == DurationSeconds(MidiFile(args.file.content)) IN
        /\ args.max_duration # None => ~DurationGt(d, args.max_duration[1])
        /\ args.min_duration # None => ~DurationLt(d, args.min_duration[1])

WithTempo(file, tc) == [file EXCEPT !.content.tempo_changes = tc]

\* the validity flag of the same call on the file with other tempo changes
FlagWithTempo(tc) ==
    LET r == validate_midi_file(WithTempo(args.file, tc), args.min_notes,
                                args.max_duration, args.min_duration,
                                args.require_tempo)
    IN r.kind = "return" /\ r.value[1]

ReasonPrefixes ==
    {"Valid", "Too few notes: ", "Duration too long: ", "Duration too short: ",
     "No tempo changes found", "Error loading MIDI: "}

\* C4: validate_midi_file never raises: it returns a (bool, str) pair, and
\* when loading fails (no such path, parser failure) or information
\* extraction fails, the pair is (False, "Error loading MIDI: ...").
C4_NeverRaises ==
    Validated =>
        /\ ret.kind = "return"
        /\ ret.value[1] \in BOOLEAN
        /\ ret.value[2].prefix \in ReasonPrefixes
        /\ (~Loads(args.file) \/ InfoFails(args.file.content))
             => Rejected(ret, "Error loading MIDI: ")

C4_Witness ==
    /\ Validated
    /\ Loads(args.file)
    /\ InfoFails(args.file.content)
    /\ Rejected(ret, "Error loading MIDI: ")
    /\ ret.value[2].detail = "ZeroDivisionError"

---------------------------------------------------------------------------
(* Properties of load_midi_file *)

KnownBackends == {"miditoolkit", "pretty_midi"}
Raised(r, exc) == r.kind = "raise" /\ r.exc = exc

\* C5 as stated: a call with an unrecognized backend ends in ValueError for
\* every file_path, and a call on a path that does not exist ends in
\* FileNotFoundError.
C5_Original ==
    op = "load_midi_file" =>
        /\ args.backend \notin KnownBackends => Raised(ret, "ValueError")
        /\ ~args.file.exists => Raised(ret, "FileNotFoundError")

\* C5 amended: a call on a path that does not exist ends in
\* FileNotFoundError whatever the backend is, and a call on an existing path
\* with an unrecognized backend ends in ValueError.
C5_LoadErrors ==
    op = "load_midi_file" =>
        /\ ~args.file.exists => Raised(ret, "FileNotFoundError")
        /\ (args.file.exists /\ args.backend \notin KnownBackends)
             => Raised(ret, "ValueError")

C5_Witness ==
    /\ op = "load_midi_file"
    /\ ~args.file.exists
    /\ args.backend \notin KnownBackends
    /\ Raised(ret, "FileNotFoundError")

---------------------------------------------------------------------------
(* Properties of filter_midi_by_instrument and get_piano_midi *)

Matches(inst, program_numbers, exclude_drums) ==
    /\ ~exclude_drums \/ ~inst.is_drum
    /\ program_numbers = None
       \/ inst.program \in {program_numbers[1][i] : i \in 1..Len(program_numbers[1])}

\* C6: the instruments of the returned object are exactly the input's
\* instruments that match, in their original order, and get_piano_midi is the
\* filter with programs 0..7 and drums excluded.
C6_FilterKeepsMatching ==
    /\ (op = "filter_midi_by_instrument" /\ ret.kind = "return") =>
         ret.value.instruments =
            SelectSeq(args.file.content.instruments,
                      LAMBDA inst : Matches(inst, args.program_numbers, args.exclude_drums))
    /\ (op = "get_piano_midi" /\ ret.kind = "return") =>
         ret.value.instruments =
            SelectSeq(args.file.content.instruments,
                      LAMBDA inst : ~inst.is_drum /\ inst.program \in 0..7)

C6_Witness ==
    /\ op = "filter_midi_by_instrument"
    /\ ret.kind = "return"
    /\ args.exclude_drums
    /\ args.program_numbers = << <<8, 0>> >>
    /\ Len(args.file.content.instruments) = 2
    /\ args.file.content.instruments[1].is_drum
    /\ ret.value.instruments = <<args.file.content.instruments[2]>>

---------------------------------------------------------------------------
(* Properties of get_midi_info *)

PitchSet(insts) ==
    UNION {{insts[i].notes[j].pitch : j \in 1..Len(insts[i].notes)} : i \in 1..Len(insts)}

\* C10: in every summary record, of either backend, the instruments list has
\* one entry per input instrument in order, total_notes is the sum of their
\* num_notes, pitch_range is present exactly when total_notes > 0, and then
\* min and max are the least and greatest pitch of all notes, min <= max and
\* span = max - min.
C10_SummaryRecord ==
    (op = "get_midi_info" /\ ret.kind = "return") =>
        LET info == ret.value
            insts == args.file.content.instruments
        IN
        /\ Len(info.instruments) = Len(insts)
        /\ \A i \in 1..Len(insts) :
             /\ info.instruments[i].program = insts[i].program
             /\ info.instruments[i].is_drum = insts[i].is_drum
             /\ info.instruments[i].name = insts[i].name
             /\ info.instruments[i].num_notes = Len(insts[i].notes)
        /\ info.total_notes =
             SumSeq([i \in 1..Len(info.instruments) |-> info.instruments[i].num_notes])
        /\ HasKey(info, "pitch_range") <=> info.total_notes > 0
        /\ HasKey(info, "pitch_range") =>
             /\ info.pitch_range.min <= info.pitch_range.max
             /\ info.pitch_range.span = info.pitch_range.max - info.pitch_range.min
             /\ info.pitch_range.min \in PitchSet(insts)
             /\ info.pitch_range.max \in PitchSet(insts)
             /\ \A q \in PitchSet(insts) :
                  info.pitch_range.min <= q /\ q <= info.pitch_range.max

C10_Witness ==
    /\ op = "get_midi_info"
    /\ ret.kind = "return"
    /\ args.how = "pretty_midi"
    /\ Len(args.file.content.instruments) = 2
    /\ args.file.content.instruments[1].notes = <<[pitch |-> 72]>>
    /\ args.file.content.instruments[2].notes = <<[pitch |-> 60], [pitch |-> 72]>>
    /\ ret.value.total_notes = 3
    /\ ret.value.pitch_range = [min |-> 60, max |-> 72, span |-> 12]

---------------------------------------------------------------------------
(* Properties of download_maestro *)

Named(name) == {i \in 1..Len(events) : events[i].name = name}
Running == pc # "idle"
YesAnswers == {"yes", "YES", "Yes"}
ZipUrls == {"maestro-v3.0.0-midi.zip", "maestro-v3.0.0.zip"}
MetadataUrls == {"maestro-v3.0.0.json"}
Fetches(url) == {i \in 1..Len(events) : events[i].url = url}

\* C7: within one call the zip URL is fetched at most once and the metadata
\* URL at most once, and a failed zip download ends the call with the error:
\* nothing is extracted and no metadata is downloaded after it.
C7_NoRetry ==
    /\ \A u \in ZipUrls \cup MetadataUrls : Cardinality(Fetches(u)) <= 1
    /\ Cardinality(Named("download_zip")) <= 1
    /\ \A i \in 1..Len(events) :
         /\ events[i].name = "download_zip" <=> events[i].url \in ZipUrls
         /\ events[i].name = "download_metadata" <=> events[i].url \in MetadataUrls
    /\ \A i \in Named("download_zip") :
         ~events[i].ok => (i = Len(events) /\ pc \in {"raised", "idle"})

C7_Witness ==
    /\ pc = "raised"
    /\ Len(events) = 2
    /\ events[1].name = "prompt_redownload"
    /\ events[2].name = "download_zip"
    /\ events[2].url = "maestro-v3.0.0-midi.zip"
    /\ ~events[2].ok

\* C8: extraction is attempted only once the zip file exists at zip_path,
\* after a successful download or after an existing file was kept (the answer
\* to "Re-download?" was not "yes"); in full mode an answer to the size
\* warning other than "yes" in any letter case ends the call with no download
\* and no extraction; the metadata file is downloaded only after a successful
\* extraction and only when it did not exist.
C8_OrderedSteps ==
    /\ pc = "extract" => fs.zips[dl.zip_filename]
    /\ \A i \in Named("extract") :
         /\ events[i].zip
         /\ \E j \in 1..(i - 1) :
              \/ events[j].name = "download_zip" /\ events[j].ok
              \/ /\ events[j].name = "prompt_redownload"
                 /\ events[j].answer \notin YesAnswers
                 /\ events[j].zip
    /\ \A i \in Named("prompt_size") :
         events[i].answer \notin YesAnswers =>
            (Len(events) = 1 /\ pc \in {"returned", "idle"})
    /\ (Running /\ ~dl.midi_only /\ dl.version = "v3.0.0"
            /\ pc \notin {"mkdir", "version", "mode", "prompt_size"})
         => (events # <<>> /\ events[1].name = "prompt_size")
    /\ \A i \in Named("download_metadata") :
         /\ ~events[i].meta
         /\ \E j \in 1..(i - 1) : events[j].name = "extract" /\ events[j].ok

C8_Witness ==
    /\ pc = "returned"
    /\ ~dl.midi_only
    /\ Len(events) = 5
    /\ events[1].name = "prompt_size" /\ events[1].answer = "YES"
    /\ events[2].name = "prompt_redownload" /\ events[2].answer = "no"
    /\ events[3].name = "extract" /\ events[3].ok
    /\ events[4].name = "download_metadata" /\ events[4].ok
    /\ events[5].name = "load_metadata"

UnknownVersion == Running /\ dl.version \notin {"v3.0.0"}

====
